---- MODULE Spec2Model ----
(***************************************************************************)
(* Limb accounting of src/plonk/circuit/bigint/bigint.rs:                  *)
(*   - the limb splitting functions and LimbedBigUint::get_value,          *)
(*   - the Limb mutators and their max_value bookkeeping,                  *)
(*   - mod_inverse,                                                        *)
(*   - LimbedRepresentationParameters::new,                                *)
(*   - get_num_bits.                                                       *)
(* Each component has its own specification over the shared variables;     *)
(* the variables of the other components stay at their idle values.        *)
(*                                                                         *)
(* BigUint is a natural number.  A field element of E::Fr is its canonical *)
(* integer in 0..FieldChar-1.  A u64 word of a field representation is the *)
(* set of the positions (0..63) of its set bits, so that words keep their  *)
(* 64-bit width without any number of that size being computed.            *)
(***************************************************************************)
EXTENDS Integers, Sequences, FiniteSets

VARIABLES
    \* limb splitting and LimbedBigUint
    arg_fe,             \* the BigUint handed to a split function
    arg_bits_per_limb,  \* its bits_per_limb argument
    arg_num_limbs,      \* the num_limbs argument (fixed-number split)
    split_pc,           \* "input" | "width" | "number" | "panic" | "stored" | "read"
    split_fn,           \* which split function produced raw_limbs
    raw_limbs,          \* the Vec<BigUint> returned by the split function
    stored_order,       \* how the caller stored it: "as_returned" | "reversed"
    big,                \* the LimbedBigUint
    big_value,          \* the result of LimbedBigUint::get_value
    \* one Limb and the calls made on it
    limb,               \* [term, max_value]
    lastOp,             \* the mutator called last
    lastArg,            \* its argument (0 when it has none)
    owed,               \* product of the scale factors not yet mirrored by scale_max
    \* mod_inverse
    inv_el, inv_modulus, inv_debug, inv_pc, inv_result,
    \* LimbedRepresentationParameters::new
    new_limb_size, new_capacity, new_pc, params,
    \* get_num_bits
    bits_el, bits_pc, bits_result

splitVars == <<arg_fe, arg_bits_per_limb, arg_num_limbs, split_pc, split_fn,
               raw_limbs, stored_order, big, big_value>>
limbVars == <<limb, lastOp, lastArg, owed>>
invVars == <<inv_el, inv_modulus, inv_debug, inv_pc, inv_result>>
newVars == <<new_limb_size, new_capacity, new_pc, params>>
bitsVars == <<bits_el, bits_pc, bits_result>>
vars == <<splitVars, limbVars, invVars, newVars, bitsVars>>

(***************************************************************************)
(* Bounds of the model.                                                    *)
(***************************************************************************)
MaxValue == 70          \* largest BigUint split
MaxWidth == 5           \* largest bits_per_limb
MaxLimbs == 4           \* largest num_limbs
MaxBound == 24          \* cap on max_value and on owed
MaxMod == 24            \* largest el and modulus of mod_inverse
MaxLimbSize == 8        \* largest limb_size / intermediate_value_capacity
NumWords == 4           \* words of a field representation (4 for a 254-bit field)

\* The characteristic of E::Fr: a small prime stands for the 254-bit one.
FieldChar == 17
\* Bits of a machine word of the representation (u64).
WordBits == 64

None == "None"
\* Option<T> of a number.
Some(v) == [some |-> TRUE, value |-> v]
NoneOf == [some |-> FALSE, value |-> 0]
Panic == "panic"
Idle == "idle"

(***************************************************************************)
(* Sequences and sets.                                                     *)
(***************************************************************************)
Reverse(s) == [i \in 1..Len(s) |-> s[Len(s) + 1 - i]]

SetMax(S) == CHOOSE x \in S : \A y \in S : y <= x

RECURSIVE SumPow2(_)
\* The natural number whose set bits are at the positions in S.
SumPow2(S) ==
    IF S = {} THEN 0
    ELSE LET b == SetMax(S) IN 2^b + SumPow2(S \ {b})

RECURSIVE bits(_)
\* BigUint::bits: the number of bits of v, 0 for 0.
bits(v) == IF v = 0 THEN 0 ELSE 1 + bits(v \div 2)

\* The positions of the set bits of the natural number v.
BitSet(v) == {b \in 0..(bits(v) - 1) : (v \div 2^b) % 2 = 1}

(***************************************************************************)
(* The field: representation, parsing, inverse.                            *)
(***************************************************************************)
\* PrimeField::into_repr: the words of the canonical value, least
\* significant word first; each word is the set of its set bit positions.
into_repr_bits(S) ==
    [i \in 1..NumWords |->
        {b - WordBits * (i - 1) : b \in {c \in S : c \div WordBits = i - 1}}]

into_repr(x) == into_repr_bits(BitSet(x))

RECURSIVE repr_fold(_, _, _)
\* The loop of repr_to_biguint from word i down to word 1:
\* b <<= 64; b += word.
repr_fold(repr, i, b) ==
    IF i = 0 THEN b
    ELSE repr_fold(repr, i - 1, {c + WordBits : c \in b} \cup repr[i])

repr_to_biguint_bits(repr) == repr_fold(repr, Len(repr), {})

repr_to_biguint(repr) == SumPow2(repr_to_biguint_bits(repr))

fe_to_biguint(x) == repr_to_biguint(into_repr(x))

RECURSIVE Digits10(_)
\* BigUint::to_str_radix(10): the decimal digits, most significant first.
Digits10(v) == IF v < 10 THEN <<v>> ELSE Digits10(v \div 10) \o <<v % 10>>

RECURSIVE from_str_fold(_, _)
from_str_fold(ds, res) ==
    IF ds = <<>> THEN res
    ELSE from_str_fold(Tail(ds), (res * 10 + Head(ds)) % FieldChar)

\* PrimeField::from_str: None for a leading zero, else the digits folded in
\* the field with res = res * 10 + digit.
from_str(ds) ==
    IF ds = <<>> THEN NoneOf
    ELSE IF ds = <<0>> THEN Some(0)
    ELSE IF Head(ds) = 0 THEN NoneOf
    ELSE Some(from_str_fold(ds, 0))

\* biguint_to_fe: from_str(&value.to_str_radix(10)).unwrap(); the decimal
\* form of a BigUint is never empty and has no leading zero, so the unwrap
\* never panics.
biguint_to_fe(v) == from_str(Digits10(v)).value

\* Field::inverse: None for zero.
inverse(x) ==
    IF x % FieldChar = 0 THEN NoneOf
    ELSE Some(CHOOSE y \in 1..(FieldChar - 1) : (x * y) % FieldChar = 1)

(***************************************************************************)
(* Limb splitting.                                                         *)
(***************************************************************************)
RECURSIVE extract_limbs(_, _, _)
\* The extraction loop of both split functions, run n times:
\* limb = fe % modulus; limbs.push(limb); fe >>= bits_per_limb.
extract_limbs(fe, bits_per_limb, n) ==
    IF n = 0 THEN <<>>
    ELSE <<fe % (2^bits_per_limb)>>
         \o extract_limbs(fe \div (2^bits_per_limb), bits_per_limb, n - 1)

\* A missing limbs.reverse().
split_into_fixed_width_limbs_norev(fe, bits_per_limb) ==
    IF bits_per_limb = 0 THEN [panic |-> TRUE, limbs |-> <<>>]
    ELSE LET num_limbs == bits(fe) \div bits_per_limb
                          + (IF bits(fe) % bits_per_limb # 0 THEN 1 ELSE 0)
         IN [panic |-> FALSE,
             limbs |-> extract_limbs(fe, bits_per_limb, num_limbs)]

\* split_into_fixed_width_limbs; fe.bits() / 0 panics.
split_into_fixed_width_limbs(fe, bits_per_limb) ==
    IF bits_per_limb = 0 THEN [panic |-> TRUE, limbs |-> <<>>]
    ELSE LET num_limbs == bits(fe) \div bits_per_limb
                          + (IF bits(fe) % bits_per_limb # 0 THEN 1 ELSE 0)
         IN [panic |-> FALSE,
             limbs |-> Reverse(extract_limbs(fe, bits_per_limb, num_limbs))]

\* A limbs.reverse() copied from the fixed-width function.
split_into_fixed_number_of_limbs_rev(fe, bits_per_limb, num_limbs) ==
    Reverse(extract_limbs(fe, bits_per_limb, num_limbs))

split_into_fixed_number_of_limbs(fe, bits_per_limb, num_limbs) ==
    extract_limbs(fe, bits_per_limb, num_limbs)

(***************************************************************************)
(* Limb and LimbedBigUint.                                                 *)
(***************************************************************************)
\* Limb::new
Limb_new(term, max_value) == [term |-> term, max_value |-> max_value]

\* Limb::get_value
Limb_get_value(l) == fe_to_biguint(l.term)

\* A LimbedBigUint over the raw limbs: each raw limb becomes a constant
\* term bounded by limb_max_value.
LimbedBigUint_from(raw, limb_size_bits) ==
    [limb_size_bits |-> limb_size_bits,
     num_limbs |-> Len(raw),
     limbs |-> [i \in 1..Len(raw) |->
                   Limb_new(biguint_to_fe(raw[i]), 2^limb_size_bits - 1)]]

RECURSIVE get_value_fold(_, _, _, _)
\* result <<= shift; result += l.get_value(), from limbs[i] down to limbs[1]
\* (the source's index i - 1 down to 0).
get_value_fold(limbs, shift, i, result) ==
    IF i = 0 THEN result
    ELSE get_value_fold(limbs, shift, i - 1,
                        result * (2^shift) + Limb_get_value(limbs[i]))

\* The loop without .rev(): the limbs folded in storage order.
LimbedBigUint_get_value_norev(b) ==
    get_value_fold(Reverse(b.limbs), b.limb_size_bits, Len(b.limbs), 0)

\* LimbedBigUint::get_value: self.limbs.iter().rev()
LimbedBigUint_get_value(b) ==
    get_value_fold(b.limbs, b.limb_size_bits, Len(b.limbs), 0)

(***************************************************************************)
(* Idle values of the components.                                          *)
(***************************************************************************)
SplitIdle ==
    /\ arg_fe = 0 /\ arg_bits_per_limb = 0 /\ arg_num_limbs = 0
    /\ split_pc = Idle /\ split_fn = None /\ raw_limbs = <<>>
    /\ stored_order = None /\ big = None /\ big_value = None

LimbIdle ==
    /\ limb = Limb_new(0, 0) /\ lastOp = Idle /\ lastArg = 0 /\ owed = 1

InvIdle ==
    /\ inv_el = 0 /\ inv_modulus = 0 /\ inv_debug = FALSE
    /\ inv_pc = Idle /\ inv_result = 0

NewIdle ==
    /\ new_limb_size = 0 /\ new_capacity = 0 /\ new_pc = Idle /\ params = None

BitsIdle ==
    /\ bits_el = {} /\ bits_pc = Idle /\ bits_result = None

(***************************************************************************)
(* Specification of the splitting functions and LimbedBigUint::get_value.  *)
(***************************************************************************)
SplitInit ==
    /\ arg_fe \in 0..MaxValue
    /\ arg_bits_per_limb \in 0..MaxWidth
    /\ arg_num_limbs \in 0..MaxLimbs
    /\ split_pc = "input" /\ split_fn = None /\ raw_limbs = <<>>
    /\ stored_order = None /\ big = None /\ big_value = None
    /\ LimbIdle /\ InvIdle /\ NewIdle /\ BitsIdle

CallSplitFixedWidth ==
    /\ split_pc = "input"
    /\ LET r == split_into_fixed_width_limbs(arg_fe, arg_bits_per_limb)
       IN /\ split_pc' = IF r.panic THEN Panic ELSE "width"
          /\ raw_limbs' = r.limbs
    /\ split_fn' = "fixed_width"
    /\ UNCHANGED <<arg_fe, arg_bits_per_limb, arg_num_limbs, stored_order, big,
                   big_value, limbVars, invVars, newVars, bitsVars>>

CallSplitFixedNumber ==
    /\ split_pc = "input"
    /\ raw_limbs' = split_into_fixed_number_of_limbs(arg_fe, arg_bits_per_limb,
                                                     arg_num_limbs)
    /\ split_pc' = "number"
    /\ split_fn' = "fixed_number"
    /\ UNCHANGED <<arg_fe, arg_bits_per_limb, arg_num_limbs, stored_order, big,
                   big_value, limbVars, invVars, newVars, bitsVars>>

\* The caller wraps the raw limbs into a LimbedBigUint, as returned or
\* reversed.
StoreLimbs(order) ==
    /\ split_pc \in {"width", "number"}
    /\ stored_order' = order
    /\ big' = LimbedBigUint_from(
                 IF order = "reversed" THEN Reverse(raw_limbs) ELSE raw_limbs,
                 arg_bits_per_limb)
    /\ split_pc' = "stored"
    /\ UNCHANGED <<arg_fe, arg_bits_per_limb, arg_num_limbs, split_fn, raw_limbs,
                   big_value, limbVars, invVars, newVars, bitsVars>>

CallGetValue ==
    /\ split_pc = "stored"
    /\ big_value' = LimbedBigUint_get_value(big)
    /\ split_pc' = "read"
    /\ UNCHANGED <<arg_fe, arg_bits_per_limb, arg_num_limbs, split_fn, raw_limbs,
                   stored_order, big, limbVars, invVars, newVars, bitsVars>>

SplitNext ==
    \/ CallSplitFixedWidth
    \/ CallSplitFixedNumber
    \/ \E order \in {"as_returned", "reversed"} : StoreLimbs(order)
    \/ CallGetValue

SpecSplit == SplitInit /\ [][SplitNext]_vars

(***************************************************************************)
(* Claims about the splitting functions and LimbedBigUint::get_value.      *)
(***************************************************************************)
RECURSIVE FoldMsbFirst(_, _, _)
\* acc = acc * 2^w + limb over s, first element first.
FoldMsbFirst(s, w, acc) ==
    IF s = <<>> THEN acc
    ELSE FoldMsbFirst(Tail(s), w, acc * (2^w) + Head(s))

RECURSIVE WeightedSum(_, _)
\* The sum over the index i (from 0) of s[i] * 2^(w*i).
WeightedSum(s, w) ==
    IF s = <<>> THEN 0 ELSE Head(s) + (2^w) * WeightedSum(Tail(s), w)

\* ceil(bit_length(v) / w), for w > 0.
NeededLimbs(v, w) == (bits(v) + w - 1) \div w

\* n limbs of w bits hold v.
Holds(v, w, n) == v < 2^(w * n)

\* Every w-bit limb is a canonical field element.
LimbsFitField(w) == 2^w <= FieldChar

IsPalindrome(s) == s = Reverse(s)

\* The values of the limbs of the LimbedBigUint, in storage order.
StoredValues == [i \in 1..Len(big.limbs) |-> Limb_get_value(big.limbs[i])]

\* C1: whatever v >= 0 and w > 0, the limbs split_into_fixed_width_limbs
\* returns, folded first element first with acc = acc * 2^w + limb from 0,
\* give v: they are the most-significant-first base-2^w digits of v (each
\* below 2^w, no leading zero limb, none at all for v = 0).
C1_FixedWidthRoundTrip ==
    (split_fn = "fixed_width" /\ split_pc # Panic) =>
        /\ FoldMsbFirst(raw_limbs, arg_bits_per_limb, 0) = arg_fe
        /\ \A i \in 1..Len(raw_limbs) : raw_limbs[i] < 2^arg_bits_per_limb
        /\ Len(raw_limbs) = NeededLimbs(arg_fe, arg_bits_per_limb)
        /\ (arg_fe = 0 => raw_limbs = <<>>)

C1_Witness ==
    /\ split_pc = "width"
    /\ Len(raw_limbs) >= 2
    /\ raw_limbs[1] # raw_limbs[2]

\* C2: for w > 0 and n >= ceil(bit_length(v)/w), the result of
\* split_into_fixed_number_of_limbs has exactly n entries, the sum of
\* result[i] * 2^(w*i) over the index i is v (least significant limb first),
\* and every entry at an index >= ceil(bit_length(v)/w) is 0.
C2_FixedNumberRoundTrip ==
    (/\ split_fn = "fixed_number"
     /\ arg_bits_per_limb > 0
     /\ arg_num_limbs >= NeededLimbs(arg_fe, arg_bits_per_limb)) =>
        /\ Len(raw_limbs) = arg_num_limbs
        /\ WeightedSum(raw_limbs, arg_bits_per_limb) = arg_fe
        /\ \A i \in 1..Len(raw_limbs) :
              (i - 1 >= NeededLimbs(arg_fe, arg_bits_per_limb)) => raw_limbs[i] = 0

C2_Witness ==
    /\ split_pc = "number"
    /\ arg_bits_per_limb > 0
    /\ NeededLimbs(arg_fe, arg_bits_per_limb) >= 2
    /\ arg_num_limbs > NeededLimbs(arg_fe, arg_bits_per_limb)
    /\ raw_limbs[1] # raw_limbs[2]

\* C3: LimbedBigUint::get_value returns the sum over the storage index i of
\* limbs[i].get_value() * (2^limb_size_bits)^i (limbs[0] least significant);
\* for limbs stored as split_into_fixed_number_of_limbs returned them, with
\* enough limbs to hold v and limbs that fit the field, it returns v.
C3_GetValueWeightedSum ==
    (split_pc = "read") =>
        /\ big_value = WeightedSum(StoredValues, big.limb_size_bits)
        /\ (/\ split_fn = "fixed_number"
            /\ stored_order = "as_returned"
            /\ Holds(arg_fe, arg_bits_per_limb, arg_num_limbs)
            /\ LimbsFitField(arg_bits_per_limb)) => big_value = arg_fe

C3_Witness ==
    /\ split_pc = "read"
    /\ split_fn = "fixed_number"
    /\ stored_order = "as_returned"
    /\ Holds(arg_fe, arg_bits_per_limb, arg_num_limbs)
    /\ LimbsFitField(arg_bits_per_limb)
    /\ ~IsPalindrome(raw_limbs)
    /\ big_value = arg_fe

\* The case C4 is about: limbs of the fixed-number split, enough of them to
\* hold v, fitting the field, and not a palindrome.
C4_Case(order) ==
    /\ split_pc = "read"
    /\ split_fn = "fixed_number"
    /\ stored_order = order
    /\ Holds(arg_fe, arg_bits_per_limb, arg_num_limbs)
    /\ LimbsFitField(arg_bits_per_limb)
    /\ ~IsPalindrome(raw_limbs)

\* C4 as stated: get_value folds the limbs in storage order (limbs[0] the
\* top limb), so limbs stored as the fixed-number split returned them
\* recompose to a value other than v unless they are a palindrome.
C4_Original ==
    /\ (split_pc = "read") =>
          big_value = FoldMsbFirst(StoredValues, big.limb_size_bits, 0)
    /\ C4_Case("as_returned") => big_value # arg_fe

\* C4, amended: get_value folds the limbs in REVERSE storage order (limbs[0]
\* is the bottom limb), so it is limbs stored most-significant-first, that
\* is the fixed-number split's result reversed by the caller, that recompose
\* to a value other than v unless they are a palindrome.
C4_Amended ==
    /\ (split_pc = "read") =>
          big_value = FoldMsbFirst(Reverse(StoredValues), big.limb_size_bits, 0)
    /\ C4_Case("reversed") => big_value # arg_fe

C4_Witness == C4_Case("reversed") /\ big_value # arg_fe

(***************************************************************************)
(* The Limb mutators.  A Term is modelled by its value in the field.       *)
(***************************************************************************)
\* Term::scale, Term::negate, Term::add_constant, on the value of the term.
Term_scale(t, by) == (t * by) % FieldChar

Term_negate(t) == (FieldChar - t) % FieldChar

Term_add_constant(t, c) == (t + c) % FieldChar

\* A scale that also multiplies the bound by the integer value of by.
Limb_scale_both(l, by) ==
    [term |-> Term_scale(l.term, by),
     max_value |-> l.max_value * fe_to_biguint(by)]

\* Limb::scale
Limb_scale(l, by) == [l EXCEPT !.term = Term_scale(@, by)]

\* Limb::negate
Limb_negate(l) == [l EXCEPT !.term = Term_negate(@)]

\* An add_constant that also adds the integer value of c to the bound.
Limb_add_constant_bump(l, c) ==
    [term |-> Term_add_constant(l.term, c),
     max_value |-> l.max_value + fe_to_biguint(c)]

\* Limb::add_constant
Limb_add_constant(l, c) == [l EXCEPT !.term = Term_add_constant(@, c)]

\* Limb::inc_max
Limb_inc_max(l, by) == [l EXCEPT !.max_value = @ + by]

\* A scale_max that adds instead of multiplying.
Limb_scale_max_add(l, by) == [l EXCEPT !.max_value = @ + by]

\* Limb::scale_max
Limb_scale_max(l, by) == [l EXCEPT !.max_value = @ * by]

\* Limb::max_value
Limb_max_value(l) == l.max_value

\* Limb::max_bits
Limb_max_bits(l) == bits(l.max_value) + 1

FieldElements == 0..(FieldChar - 1)

\* One call of a mutator; owed is the caller's and is set by the
\* specification.
Call_scale(by) ==
    /\ limb' = Limb_scale(limb, by)
    /\ lastOp' = "scale" /\ lastArg' = by
    /\ UNCHANGED <<splitVars, invVars, newVars, bitsVars>>

Call_negate ==
    /\ limb' = Limb_negate(limb)
    /\ lastOp' = "negate" /\ lastArg' = 0
    /\ UNCHANGED <<splitVars, invVars, newVars, bitsVars>>

Call_add_constant(c) ==
    /\ limb' = Limb_add_constant(limb, c)
    /\ lastOp' = "add_constant" /\ lastArg' = c
    /\ UNCHANGED <<splitVars, invVars, newVars, bitsVars>>

Call_inc_max(by) ==
    /\ limb.max_value + by <= MaxBound
    /\ limb' = Limb_inc_max(limb, by)
    /\ lastOp' = "inc_max" /\ lastArg' = by
    /\ UNCHANGED <<splitVars, invVars, newVars, bitsVars>>

Call_scale_max(by) ==
    /\ limb.max_value * by <= MaxBound
    /\ limb' = Limb_scale_max(limb, by)
    /\ lastOp' = "scale_max" /\ lastArg' = by
    /\ UNCHANGED <<splitVars, invVars, newVars, bitsVars>>

(***************************************************************************)
(* Specification of a Limb under any calls of its mutators.                *)
(***************************************************************************)
LimbInit ==
    /\ \E t \in FieldElements, m \in 0..MaxBound : limb = Limb_new(t, m)
    /\ lastOp = "new" /\ lastArg = 0 /\ owed = 1
    /\ SplitIdle /\ InvIdle /\ NewIdle /\ BitsIdle

LimbNext ==
    \/ \E by \in FieldElements : Call_scale(by) /\ UNCHANGED owed
    \/ Call_negate /\ UNCHANGED owed
    \/ \E c \in FieldElements : Call_add_constant(c) /\ UNCHANGED owed
    \/ \E by \in 0..MaxBound : Call_inc_max(by) /\ UNCHANGED owed
    \/ \E by \in 0..MaxBound : Call_scale_max(by) /\ UNCHANGED owed

SpecLimb == LimbInit /\ [][LimbNext]_vars

(***************************************************************************)
(* Specification of the bound of a Limb: the limb starts with              *)
(* get_value() <= max_value and is only scaled (by >= 1, the product below *)
(* the characteristic), inc_max'ed and scale_max'ed (by >= 1).  owed is    *)
(* the caller's account of the scale factors it has not yet mirrored with  *)
(* a scale_max of the same factor.                                         *)
(***************************************************************************)
BoundInit ==
    /\ \E t \in FieldElements, m \in 0..MaxBound :
          /\ t <= m
          /\ limb = Limb_new(t, m)
    /\ lastOp = "new" /\ lastArg = 0 /\ owed = 1
    /\ SplitIdle /\ InvIdle /\ NewIdle /\ BitsIdle

BoundScale(by) ==
    /\ Limb_get_value(limb) * fe_to_biguint(by) < FieldChar
    /\ owed * by <= MaxBound
    /\ Call_scale(by)
    /\ owed' = owed * by

BoundIncMax(by) == Call_inc_max(by) /\ UNCHANGED owed

BoundScaleMax(by) ==
    /\ Call_scale_max(by)
    /\ owed' = IF owed % by = 0 THEN owed \div by ELSE owed

BoundNext ==
    \/ \E by \in 1..(FieldChar - 1) : BoundScale(by)
    \/ \E by \in 0..MaxBound : BoundIncMax(by)
    \/ \E by \in 1..MaxBound : BoundScaleMax(by)

SpecBound == BoundInit /\ [][BoundNext]_vars

(***************************************************************************)
(* Claims about the Limb mutators.                                         *)
(***************************************************************************)
\* C5 as stated: scale(by) multiplies the term by the field constant by and
\* max_value by the integer value of by.
C5_Original ==
    [][lastOp' = "scale" =>
          /\ limb'.term = (limb.term * lastArg') % FieldChar
          /\ limb'.max_value = limb.max_value * fe_to_biguint(lastArg')]_vars

\* C5, amended: scale(by) updates the term only: the term is multiplied by
\* the field constant by, and max_value is left exactly as it was; the
\* bound is the caller's to multiply (scale_max).
C5_Amended ==
    [][lastOp' = "scale" =>
          /\ limb'.term = (limb.term * lastArg') % FieldChar
          /\ limb'.max_value = limb.max_value]_vars

C5_Witness ==
    /\ lastOp = "scale" /\ lastArg >= 2
    /\ limb.term >= 1 /\ limb.max_value >= 1

\* C6 as stated: with scale never accompanied by a bound update of the
\* caller's, get_value() <= max_value holds in every state reached.
C6_Original == Limb_get_value(limb) <= Limb_max_value(limb)

\* C6, amended: in every state reached, get_value() is at most max_value
\* times the product of the scale factors the caller has not yet mirrored
\* with scale_max; so get_value() <= max_value holds wherever every
\* scale(by) has been accompanied by the caller's scale_max(by).
C6_Amended ==
    /\ Limb_get_value(limb) <= Limb_max_value(limb) * owed
    /\ (owed = 1 => Limb_get_value(limb) <= Limb_max_value(limb))

C6_Witness ==
    /\ lastOp = "scale_max" /\ lastArg >= 2 /\ owed = 1
    /\ Limb_get_value(limb) = Limb_max_value(limb)
    /\ Limb_get_value(limb) >= 2

\* C9: negate() and add_constant(c) change the term only and leave
\* max_value as it was; inc_max(by) and scale_max(by) change max_value only,
\* to old + by and old * by, and leave the term and so get_value() as they
\* were.
C9_MutatorFrame ==
    [][/\ lastOp' = "negate" =>
             /\ limb'.max_value = limb.max_value
             /\ (limb'.term + limb.term) % FieldChar = 0
       /\ lastOp' = "add_constant" =>
             /\ limb'.max_value = limb.max_value
             /\ limb'.term = (limb.term + lastArg') % FieldChar
       /\ lastOp' = "inc_max" =>
             /\ limb'.max_value = limb.max_value + lastArg'
             /\ limb'.term = limb.term
             /\ Limb_get_value(limb') = Limb_get_value(limb)
       /\ lastOp' = "scale_max" =>
             /\ limb'.max_value = limb.max_value * lastArg'
             /\ limb'.term = limb.term
             /\ Limb_get_value(limb') = Limb_get_value(limb)]_vars

C9_Witness ==
    /\ lastOp = "add_constant" /\ lastArg >= 1
    /\ limb.max_value >= 1 /\ limb.term >= 1

(***************************************************************************)
(* mod_inverse.                                                            *)
(***************************************************************************)
RECURSIVE extended_gcd_loop(_, _, _)
\* The loop of Integer::extended_gcd: r, s, t are pairs; while r.0 is not
\* zero, q = r.1 / r.0 and each pair (a, b) becomes (b - q * a, a).
extended_gcd_loop(r, s, t) ==
    IF r[1] = 0 THEN [r |-> r, s |-> s, t |-> t]
    ELSE LET q == r[2] \div r[1]
         IN extended_gcd_loop(<<r[2] - q * r[1], r[1]>>,
                              <<s[2] - q * s[1], s[1]>>,
                              <<t[2] - q * t[1], t[1]>>)

\* self.extended_gcd(other): gcd = x * self + y * other.  self and other
\* are not negative here, so the truncating division is the floor.
extended_gcd(self, other) ==
    LET e == extended_gcd_loop(<<other, self>>, <<0, 1>>, <<1, 0>>)
    IN IF e.r[2] >= 0
       THEN [gcd |-> e.r[2], x |-> e.s[2], y |-> e.t[2]]
       ELSE [gcd |-> 0 - e.r[2], x |-> 0 - e.s[2], y |-> 0 - e.t[2]]

\* A mod_inverse that returns the coefficient of the modulus (x) instead of
\* that of el (y).
mod_inverse_x(el, modulus, debug) ==
    IF el = 0 THEN [panic |-> TRUE, value |-> 0]
    ELSE LET e == extended_gcd(modulus, el)
         IN IF e.gcd # 1 THEN [panic |-> TRUE, value |-> 0]
            ELSE LET y == IF e.x < 0 THEN e.x + modulus ELSE e.x
                 IN IF y < 0 THEN [panic |-> TRUE, value |-> 0]
                    ELSE IF debug /\ ~(y < modulus)
                         THEN [panic |-> TRUE, value |-> 0]
                    ELSE [panic |-> FALSE, value |-> y]

\* mod_inverse; debug says whether debug assertions are compiled in.
\* to_biguint() of a negative number is None, and expect panics.
mod_inverse(el, modulus, debug) ==
    IF el = 0 THEN [panic |-> TRUE, value |-> 0]
    ELSE LET e == extended_gcd(modulus, el)
         IN IF e.gcd # 1 THEN [panic |-> TRUE, value |-> 0]
            ELSE LET y == IF e.y < 0 THEN e.y + modulus ELSE e.y
                 IN IF y < 0 THEN [panic |-> TRUE, value |-> 0]
                    ELSE IF debug /\ ~(y < modulus)
                         THEN [panic |-> TRUE, value |-> 0]
                    ELSE [panic |-> FALSE, value |-> y]

InvInit ==
    /\ inv_el \in 0..MaxMod
    /\ inv_modulus \in 0..MaxMod
    /\ inv_debug \in BOOLEAN
    /\ inv_pc = "input" /\ inv_result = 0
    /\ SplitIdle /\ LimbIdle /\ NewIdle /\ BitsIdle

CallModInverse ==
    /\ inv_pc = "input"
    /\ LET r == mod_inverse(inv_el, inv_modulus, inv_debug)
       IN /\ inv_pc' = IF r.panic THEN Panic ELSE "done"
          /\ inv_result' = r.value
    /\ UNCHANGED <<inv_el, inv_modulus, inv_debug,
                   splitVars, limbVars, newVars, bitsVars>>

InvNext == CallModInverse

SpecInv == InvInit /\ [][InvNext]_vars

RECURSIVE Gcd(_, _)
Gcd(a, b) == IF b = 0 THEN a ELSE Gcd(b, a % b)

\* C7: for a # 0, m > 1 and gcd(a, m) = 1 (a >= m included), mod_inverse
\* returns r with (r * a) mod m = 1 and 0 <= r < m; the coefficient of
\* extended Euclid is brought into [0, m) by adding m once when negative.
C7_ModInverse ==
    (/\ inv_pc # "input"
     /\ inv_el # 0 /\ inv_modulus > 1
     /\ Gcd(inv_el, inv_modulus) = 1) =>
        /\ inv_pc = "done"
        /\ (inv_result * inv_el) % inv_modulus = 1
        /\ 0 <= inv_result /\ inv_result < inv_modulus
        /\ LET y == extended_gcd(inv_modulus, inv_el).y
           IN /\ y > 0 - inv_modulus /\ y < inv_modulus
              /\ inv_result = IF y < 0 THEN y + inv_modulus ELSE y

C7_Witness ==
    /\ inv_pc = "done"
    /\ inv_el > inv_modulus /\ inv_modulus > 2
    /\ extended_gcd(inv_modulus, inv_el).y < 0
    /\ (inv_result * inv_el) % inv_modulus = 1

(***************************************************************************)
(* LimbedRepresentationParameters::new.                                    *)
(***************************************************************************)
\* The struct literal of new.
LimbedRepresentationParameters(limb_size, capacity, shift_left, shift_right, two, div_two) ==
    [limb_size_bits |-> limb_size,
     limb_max_value |-> 2^limb_size - 1,
     limb_max_intermediate_value |-> 2^capacity - 1,
     limb_intermediate_value_capacity |-> capacity,
     shift_left_by_limb_constant |-> shift_left,
     shift_right_by_limb_constant |-> shift_right,
     mul_two_constant |-> two,
     div_two_constant |-> div_two]

\* A new that takes the two widths in the other order.
LimbedRepresentationParameters_new_swapped(limb_size, intermediate_value_capacity) ==
    [panic |-> FALSE,
     value |-> LimbedRepresentationParameters(
                  intermediate_value_capacity, limb_size,
                  biguint_to_fe(2^limb_size),
                  inverse(biguint_to_fe(2^limb_size)).value,
                  (1 + 1) % FieldChar, inverse((1 + 1) % FieldChar).value)]

\* LimbedRepresentationParameters::new; each unwrap of a None panics.
LimbedRepresentationParameters_new(limb_size, intermediate_value_capacity) ==
    LET tmp == 2^limb_size
        shift_left_by_limb_constant == from_str(Digits10(tmp))
        two == (1 + 1) % FieldChar
    IN IF ~shift_left_by_limb_constant.some
       THEN [panic |-> TRUE, value |-> None]
       ELSE LET shift_right_by_limb_constant ==
                    inverse(shift_left_by_limb_constant.value)
                div_two_constant == inverse(two)
            IN IF ~shift_right_by_limb_constant.some \/ ~div_two_constant.some
               THEN [panic |-> TRUE, value |-> None]
               ELSE [panic |-> FALSE,
                     value |-> LimbedRepresentationParameters(
                                  limb_size, intermediate_value_capacity,
                                  shift_left_by_limb_constant.value,
                                  shift_right_by_limb_constant.value,
                                  two, div_two_constant.value)]

NewInit ==
    /\ new_limb_size \in 0..MaxLimbSize
    /\ new_capacity \in 0..(MaxLimbSize + 4)
    /\ new_pc = "input" /\ params = None
    /\ SplitIdle /\ LimbIdle /\ InvIdle /\ BitsIdle

CallNew ==
    /\ new_pc = "input"
    /\ LET r == LimbedRepresentationParameters_new(new_limb_size, new_capacity)
       IN /\ new_pc' = IF r.panic THEN Panic ELSE "done"
          /\ params' = r.value
    /\ UNCHANGED <<new_limb_size, new_capacity,
                   splitVars, limbVars, invVars, bitsVars>>

NewNext == CallNew

SpecNew == NewInit /\ [][NewNext]_vars

\* The invariants of the data model.
ParamsInvariants(p) ==
    /\ p.limb_size_bits > 0
    /\ p.limb_intermediate_value_capacity >= p.limb_size_bits

\* C8 as stated: every parameters object new produces has limb_size_bits > 0
\* and limb_intermediate_value_capacity >= limb_size_bits (equivalently
\* limb_max_value <= limb_max_intermediate_value).
C8_Original ==
    (new_pc = "done") =>
        /\ ParamsInvariants(params)
        /\ params.limb_max_value <= params.limb_max_intermediate_value

\* C8, amended: new validates nothing and always returns: it stores the two
\* widths as given, with limb_max_value = 2^limb_size - 1 and
\* limb_max_intermediate_value = 2^capacity - 1; so the object it produces
\* has limb_size_bits > 0 and capacity >= limb_size_bits exactly when the
\* caller's arguments do, and limb_max_value <= limb_max_intermediate_value
\* exactly when capacity >= limb_size.
C8_Amended ==
    (new_pc # "input") =>
        /\ new_pc = "done"
        /\ params.limb_size_bits = new_limb_size
        /\ params.limb_intermediate_value_capacity = new_capacity
        /\ params.limb_max_value = 2^new_limb_size - 1
        /\ params.limb_max_intermediate_value = 2^new_capacity - 1
        /\ ParamsInvariants(params)
              <=> (new_limb_size > 0 /\ new_capacity >= new_limb_size)
        /\ (params.limb_max_value <= params.limb_max_intermediate_value)
              <=> (new_capacity >= new_limb_size)

C8_Witness ==
    /\ new_pc = "done"
    /\ new_limb_size > 0 /\ new_capacity < new_limb_size
    /\ ~ParamsInvariants(params)

(***************************************************************************)
(* get_num_bits.  The field element is the set of the positions of the set *)
(* bits of its canonical value.                                            *)
(***************************************************************************)
\* u64::leading_zeros
leading_zeros(word) == IF word = {} THEN WordBits ELSE (WordBits - 1) - SetMax(word)

RECURSIVE num_bits_loop(_, _, _)
\* The loop of get_num_bits over repr.as_ref().iter().rev(), from word i
\* down: a zero word takes 64 off, the first other word its leading zeros.
num_bits_loop(repr, i, num_bits) ==
    IF i = 0 THEN num_bits
    ELSE IF repr[i] = {} THEN num_bits_loop(repr, i - 1, num_bits - WordBits)
    ELSE num_bits - leading_zeros(repr[i])

\* The loop without .rev(): the words scanned from the least significant.
get_num_bits_norev(el) ==
    LET repr == Reverse(into_repr_bits(el))
    IN num_bits_loop(repr, Len(repr), Len(repr) * WordBits)

\* get_num_bits
get_num_bits(el) ==
    LET repr == into_repr_bits(el)
    IN num_bits_loop(repr, Len(repr), Len(repr) * WordBits)

TotalBits == NumWords * WordBits

\* The values get_num_bits is applied to: 0, 2^k, 2^k - 1, and 2^k plus one
\* lower bit (bit 0, the bit below k, the top bit of the word below, the
\* same bit of the word below).
BitPatterns ==
    {{}}
    \cup {{k} : k \in 0..(TotalBits - 1)}
    \cup {0..(k - 1) : k \in 1..TotalBits}
    \cup UNION {{{k, j} : j \in {0, k - 1, (k \div WordBits) * WordBits - 1,
                                  k - WordBits} \cap 0..TotalBits}
                   : k \in 0..(TotalBits - 1)}

BitsInit ==
    /\ bits_el \in {S \in BitPatterns : S \subseteq 0..(TotalBits - 1)}
    /\ bits_pc = "input" /\ bits_result = None
    /\ SplitIdle /\ LimbIdle /\ InvIdle /\ NewIdle

CallGetNumBits ==
    /\ bits_pc = "input"
    /\ bits_result' = get_num_bits(bits_el)
    /\ bits_pc' = "done"
    /\ UNCHANGED <<bits_el, splitVars, limbVars, invVars, newVars>>

BitsNext == CallGetNumBits

SpecBits == BitsInit /\ [][BitsNext]_vars

\* The index (from 1) of the most significant word with a set bit.
TopWord(S) == SetMax(S) \div WordBits + 1

\* C10: get_num_bits is the index of the highest set bit of the value plus
\* one, 0 for the value 0: the word count times 64, less 64 for each zero
\* word above the most significant non-zero word, less the leading zeros of
\* that word; so 0 for 0, k + 1 for 2^k and k for 2^k - 1.
C10_BitLength ==
    (bits_pc = "done") =>
        /\ bits_result = IF bits_el = {} THEN 0 ELSE SetMax(bits_el) + 1
        /\ bits_el # {} =>
              bits_result = NumWords * WordBits
                            - WordBits * (NumWords - TopWord(bits_el))
                            - leading_zeros(into_repr_bits(bits_el)[TopWord(bits_el)])
        /\ \A k \in 0..(TotalBits - 1) :
              /\ bits_el = {k} => bits_result = k + 1
              /\ bits_el = 0..(k - 1) => bits_result = k

C10_Witness ==
    /\ bits_pc = "done"
    /\ 0 \in bits_el /\ Cardinality(bits_el) = 2
    /\ bits_result > WordBits
    /\ bits_result <= TotalBits - WordBits
    /\ bits_result % WordBits # 0

====
